---- MODULE Spec2Model ----
(***************************************************************************)
(* Workflow-chain engine: the streaming decoder (executeCustomWorkflow),   *)
(* the input mapping and the chain state machine (WorkflowChainManager).   *)
(*                                                                         *)
(* JavaScript values are encoded as follows.                               *)
(*   - an object used as a map (inputs, outputs, userModifications) is a   *)
(*     TLA+ function from its keys to values;                              *)
(*   - an optional value (T | undefined) is a set: {} is undefined and     *)
(*     {v} is the value v;                                                 *)
(*   - scalar values are strings; "n0" and "n1" stand for the numbers 0    *)
(*     and 1, every other string stands for itself;                        *)
(*   - text is a sequence of symbols: "NL" is the newline, "data:" and     *)
(*     " " spell the 'data: ' prefix, and a JSON document is spelt         *)
(*     "{" name "}" where name indexes EventOf.                            *)
(***************************************************************************)
EXTENDS Integers, Sequences, FiniteSets, TLC

VARIABLES registry, heap, calls, ret, ops

vars == <<registry, heap, calls, ret, ops>>

\* ------------------------------------------------------------ bounds
MaxInFlight == 2

MaxOps == 5

\* the largest number of chunks a response body is cut into
MaxChunks == 3

\* ------------------------------------------------------------ values
Undefined == {}

Some(v) == {v}

Get(o) == CHOOSE v \in o : TRUE

EmptyMap == [k \in {} |-> ""]

\* { ...a, ...b }
Merge(a, b) == [k \in (DOMAIN a) \cup (DOMAIN b) |-> IF k \in DOMAIN b THEN b[k] ELSE a[k]]

\* { ...a, ...(o || {}) }
MergeOpt(a, o) == IF o = Undefined THEN a ELSE Merge(a, Get(o))

NumValues == {"n0", "n1"}

\* JavaScript truthiness of a scalar: '' and 0 are falsy
Truthy(v) == v \notin {"", "n0"}

\* v.substring exists only on strings
IsString(v) == v \notin NumValues

\* the condition `obj.key` of an if: the field is there and truthy
TruthyField(obj, key) == key \in DOMAIN obj /\ Truthy(obj[key])

\* ------------------------------------------------------------ text
Prefix == <<"data:", " ">>

RECURSIVE SplitFrom(_, _, _)
SplitFrom(text, cur, acc) ==
    IF text = <<>> THEN Append(acc, cur)
    ELSE IF Head(text) = "NL" THEN SplitFrom(Tail(text), <<>>, Append(acc, cur))
    ELSE SplitFrom(Tail(text), Append(cur, Head(text)), acc)

\* text.split('\n')
Split(text) == SplitFrom(text, <<>>, <<>>)

RECURSIVE TrimLeft(_)
TrimLeft(s) == IF s # <<>> /\ Head(s) = " " THEN TrimLeft(Tail(s)) ELSE s

RECURSIVE TrimRight(_)
TrimRight(s) ==
    IF s # <<>> /\ s[Len(s)] = " " THEN TrimRight(SubSeq(s, 1, Len(s) - 1)) ELSE s

\* s.trim()
Trim(s) == TrimRight(TrimLeft(s))

\* s.startsWith(p)
StartsWith(s, p) == Len(s) >= Len(p) /\ SubSeq(s, 1, Len(p)) = p

\* s.substring(n)
Substring(s, n) == SubSeq(s, n + 1, Len(s))

\* ------------------------------------------------------------ events
Event(ev, data, message) == [event |-> ev, data |-> data, message |-> message]

Data(outputs, error) == Some([outputs |-> outputs, error |-> error])

FragA == [k \in {"agent_output", "extra"} |-> IF k = "agent_output" THEN "X" ELSE "E1"]

FragB == [k \in {"agent_output"} |-> "Y"]

FinalOut == [k \in {"current_de_op_output", "extra"} |->
                IF k = "current_de_op_output" THEN "O" ELSE "E2"]

\* the JSON documents of the streams, by name
EventOf ==
    [n \in {"ws", "ns", "nfA", "nfB", "nf0", "wfOk", "wfNoOut", "wfNoData",
            "wfErr", "errM", "err0", "ping"} |->
        CASE n = "ws"       -> Event("workflow_started", Undefined, Undefined)
          [] n = "ns"       -> Event("node_started", Data(Undefined, Undefined), Undefined)
          [] n = "nfA"      -> Event("node_finished", Data(Some(FragA), Undefined), Undefined)
          [] n = "nfB"      -> Event("node_finished", Data(Some(FragB), Undefined), Undefined)
          [] n = "nf0"      -> Event("node_finished", Undefined, Undefined)
          [] n = "wfOk"     -> Event("workflow_finished", Data(Some(FinalOut), Undefined), Undefined)
          [] n = "wfNoOut"  -> Event("workflow_finished", Data(Undefined, Undefined), Undefined)
          [] n = "wfNoData" -> Event("workflow_finished", Undefined, Undefined)
          [] n = "wfErr"    -> Event("workflow_finished", Data(Undefined, Some("boom")), Undefined)
          [] n = "errM"     -> Event("error", Undefined, Some("bad"))
          [] n = "err0"     -> Event("error", Undefined, Undefined)
          [] n = "ping"     -> Event("ping", Undefined, Undefined)]

DefaultErrorMessage == "Workflow execution failed"

\* JSON.parse(jsonString): the document, or a SyntaxError
JSONParse(s) ==
    IF Len(s) = 3 /\ s[1] = "{" /\ s[3] = "}" /\ s[2] \in DOMAIN EventOf
    THEN [ok |-> TRUE, data |-> EventOf[s[2]]]
    ELSE [ok |-> FALSE, data |-> Event("", Undefined, Undefined)]

\* ------------------------------------------------------------ chains
StepDef(name, workflowId, apiKey, inputs) ==
    [name |-> name, workflowId |-> workflowId, apiKey |-> apiKey, inputs |-> inputs,
     allowUserEdit |-> TRUE]

ResearchDef == StepDef("Company Research", "wf-1", "key-1",
                       [k \in {"company_name"} |-> "Tesla"])

NamedDef == StepDef("Detailed Analysis", "wf-2", "key-2",
                    [k \in {"competitor_input", "current_de_op_input"} |-> "D"])

GenericDef == StepDef("Second Analysis", "wf-2", "key-2",
                      [k \in {"second_input", "extra"} |-> "D"])

PlainDef == StepDef("Advanced Processing", "wf-3", "key-3",
                    [k \in {"extra"} |-> "D"])

\* the step lists createChain is called with
StepLists == { <<>>, <<ResearchDef>>, <<ResearchDef, NamedDef>>,
               <<ResearchDef, GenericDef, PlainDef>> }

\* the userModifications argument of executeNextStep
UserMods == { Undefined, Some([k \in {"extra"} |-> "Z"]) }

\* (mutant) every step gets the id of the first position
NewChain_SameStepIds(id, name, steps) ==
    [id |-> id,
     name |-> name,
     steps |-> [i \in 1..Len(steps) |->
                  [id |-> <<id, "step", 0>>,
                   name |-> steps[i].name,
                   workflowId |-> steps[i].workflowId,
                   apiKey |-> steps[i].apiKey,
                   inputs |-> steps[i].inputs,
                   allowUserEdit |-> steps[i].allowUserEdit,
                   userModifications |-> Undefined,
                   outputs |-> Undefined,
                   status |-> "pending"]],
     currentStepIndex |-> 0,
     status |-> "pending"]

\* createChain: the chain object built from the step definitions
NewChain(id, name, steps) ==
    [id |-> id,
     name |-> name,
     steps |-> [i \in 1..Len(steps) |->
                  [id |-> <<id, "step", i - 1>>,
                   name |-> steps[i].name,
                   workflowId |-> steps[i].workflowId,
                   apiKey |-> steps[i].apiKey,
                   inputs |-> steps[i].inputs,
                   allowUserEdit |-> steps[i].allowUserEdit,
                   userModifications |-> Undefined,
                   outputs |-> Undefined,
                   status |-> "pending"]],
     currentStepIndex |-> 0,
     status |-> "pending"]

\* chain.steps[i], i counted from 0; undefined outside the array
StepAt(chain, i) ==
    IF i >= 0 /\ i < Len(chain.steps) THEN Some(chain.steps[i + 1]) ELSE Undefined

StepAtCursor(chain) == chain.steps[chain.currentStepIndex + 1]

\* the chain with step i (from 0) replaced
WithStep(chain, i, step) == [chain EXCEPT !.steps[i + 1] = step]

\* ------------------------------------------------------------ input mapping
Threw(inputs) == [threw |-> TRUE, inputs |-> inputs]

Mapped(inputs) == [threw |-> FALSE, inputs |-> inputs]

\* the competitor_input / current_de_op_input branch
NamedSlots(cur, po) ==
    LET map1 == "competitor_input" \in DOMAIN cur.inputs /\ TruthyField(po, "agent_output")
        map2 == "current_de_op_input" \in DOMAIN cur.inputs
                    /\ TruthyField(po, "current_de_op_output")
        s1 == IF map1 THEN Merge(cur.inputs, [k \in {"competitor_input"} |-> po["agent_output"]])
                      ELSE cur.inputs
        s2 == IF map2 THEN Merge(s1, [k \in {"current_de_op_input"} |-> po["current_de_op_output"]])
                      ELSE s1
    IN  IF (map1 /\ ~IsString(po["agent_output"]))
           \/ (map2 /\ ~IsString(po["current_de_op_output"]))
        THEN Threw(s1)
        ELSE Mapped(MergeOpt(s2, cur.userModifications))

\* the legacy second_input branch
GenericSlot(cur, po) ==
    IF TruthyField(po, "agent_output")
    THEN Mapped(MergeOpt(Merge(cur.inputs, [k \in {"second_input"} |-> po["agent_output"]]),
                         cur.userModifications))
    ELSE IF TruthyField(po, "current_de_op_output")
    THEN IF ~IsString(po["current_de_op_output"])
         THEN Threw(cur.inputs)
         ELSE Mapped(MergeOpt(Merge(cur.inputs,
                                    [k \in {"second_input"} |-> po["current_de_op_output"]]),
                              cur.userModifications))
    ELSE Mapped(MergeOpt(cur.inputs, cur.userModifications))

\* (mutant) the defaults are spread after the previous outputs
MergeAll_DefaultsWin(cur, po) ==
    Mapped(MergeOpt(Merge(po, cur.inputs), cur.userModifications))

\* no recognised slot: all previous outputs are merged
MergeAll(cur, po) == Mapped(MergeOpt(Merge(cur.inputs, po), cur.userModifications))

\* steps 4 and 5 of executeNextStep: the inputs sent for the step at the cursor,
\* or the TypeError of a substring call on a value that is no string
StepInputs(chain) ==
    LET idx == chain.currentStepIndex
        cur == chain.steps[idx + 1]
    IN  IF idx > 0
        THEN LET prev == chain.steps[idx]
             IN  IF prev.outputs # Undefined
                 THEN LET po == Get(prev.outputs)
                      IN  IF "competitor_input" \in DOMAIN cur.inputs
                             \/ "current_de_op_input" \in DOMAIN cur.inputs
                          THEN NamedSlots(cur, po)
                          ELSE IF "second_input" \in DOMAIN cur.inputs
                          THEN GenericSlot(cur, po)
                          ELSE MergeAll(cur, po)
                 ELSE Mapped(cur.inputs)
        ELSE Mapped(MergeOpt(cur.inputs, cur.userModifications))


\* ------------------------------------------------------------ responses
Line(name) == <<"data:", " ", "{", name, "}", "NL">>

\* text cut into two chunks after n symbols
CutAt(text, n) == <<SubSeq(text, 1, n), SubSeq(text, n + 1, Len(text))>>

\* the text the chunks of a body spell
RECURSIVE Flatten(_)
Flatten(chunks) == IF chunks = <<>> THEN <<>> ELSE Head(chunks) \o Flatten(Tail(chunks))

Stream(chunks, readError) == [kind |-> "stream", chunks |-> chunks, readError |-> readError]

NoStream(kind) == [kind |-> kind, chunks |-> <<>>, readError |-> FALSE]

\* what the remote service answers: fetch rejects, a non-success status, no body,
\* or a body delivering the chunks and then ending or failing to read
Responses ==
    { NoStream("rejects"), NoStream("status"), NoStream("nobody"),
      Stream(CutAt(Line("nfA") \o Line("wfOk"), 4), FALSE),
      Stream(<<Line("ws") \o Line("nfA") \o Line("nfB") \o Line("wfNoOut")>>, FALSE),
      Stream(<<Line("nfA") \o Line("nf0") \o Line("nfB") \o Line("wfOk")>>, FALSE),
      Stream(<<Line("nfA") \o Line("wfErr")>>, FALSE),
      Stream(<<Line("errM")>>, FALSE),
      Stream(<<Line("err0") \o Line("wfOk")>>, FALSE),
      Stream(<<Line("ns")>>, TRUE) }

\* ------------------------------------------------------------ calls
Slots == 1..MaxInFlight

\* A call of executeNextStep that passed its checks.  Beside the locals of the
\* code (stepInputs, nodeOutputs, buffer, the promise) it records what it was
\* started with (cursor, mods, retry: the step was 'failed') and the records
\* its switch statement recognised (events), the chunks of the response
\* body as the service sent them (body) and the number of reads of the reader it awaited (reads).
IdleCall ==
    [pc |-> "idle", chainId |-> "", chain |-> 0, step |-> 0, cursor |-> 0,
     stepInputs |-> EmptyMap,
     nodeOutputs |-> EmptyMap, buffer |-> <<>>, chunks |-> <<>>, readError |-> FALSE,
     settled |-> "none", result |-> Undefined, released |-> 0,
     events |-> <<>>, mods |-> Undefined, retry |-> FALSE,
     body |-> <<>>, reads |-> 0]

InFlight(c) == c.pc \in {"fetching", "reading"}

\* promise settlement: only the first resolve or reject counts
Settle(ctx, how, value) ==
    IF ctx.settled = "none"
    THEN [ctx EXCEPT !.settled = how, !.result = Some(value)]
    ELSE ctx

\* (mutant) a failure takes the chain back to its first step
CatchBlock_Rewinds(ctx, error) ==
    Settle([ctx EXCEPT !.chain = [WithStep(ctx.chain, ctx.step,
                                            [ctx.chain.steps[ctx.step + 1] EXCEPT !.status = "failed"])
                                   EXCEPT !.status = "failed", !.currentStepIndex = 0]],
           "rejected", [error |-> error])

\* (mutant) a failure marks the chain but leaves the step 'running'
CatchBlock_ChainOnly(ctx, error) ==
    Settle([ctx EXCEPT !.chain = [ctx.chain EXCEPT !.status = "failed"]],
           "rejected", [error |-> error])

\* the catch block of executeNextStep
CatchBlock(ctx, error) ==
    Settle([ctx EXCEPT !.chain = [WithStep(ctx.chain, ctx.step,
                                            [ctx.chain.steps[ctx.step + 1] EXCEPT !.status = "failed"])
                                   EXCEPT !.status = "failed"]],
           "rejected", [error |-> error])

\* (mutant) a fragment does not overwrite what earlier fragments gave
onNodeFinished_FirstWins(ctx, eventData) ==
    IF eventData.data # Undefined /\ Get(eventData.data).outputs # Undefined
    THEN [ctx EXCEPT !.nodeOutputs = Merge(Get(Get(eventData.data).outputs), ctx.nodeOutputs)]
    ELSE ctx

\* callback 3
onNodeFinished(ctx, eventData) ==
    IF eventData.data # Undefined /\ Get(eventData.data).outputs # Undefined
    THEN [ctx EXCEPT !.nodeOutputs = Merge(ctx.nodeOutputs, Get(Get(eventData.data).outputs))]
    ELSE ctx

\* (mutant) the chain counts as completed one step too late
Advance_OffByOne(chain) ==
    LET next == chain.currentStepIndex + 1
    IN  [chain EXCEPT !.currentStepIndex = next,
                      !.status = IF next > Len(chain.steps) THEN "completed" ELSE "pending"]

\* cursor and chain status after a completed step
Advance(chain) ==
    LET next == chain.currentStepIndex + 1
    IN  [chain EXCEPT !.currentStepIndex = next,
                      !.status = IF next >= Len(chain.steps) THEN "completed" ELSE "pending"]

\* (mutant) the error field of the run-finish record is not looked at
onWorkflowFinished_ErrorIgnored(ctx, eventData) ==
    LET cur == ctx.chain.steps[ctx.step + 1]
        workflowOutputs ==
            IF eventData.data # Undefined /\ Get(eventData.data).outputs # Undefined
            THEN Get(Get(eventData.data).outputs) ELSE EmptyMap
        outputs == Merge(ctx.nodeOutputs, workflowOutputs)
        done == [cur EXCEPT !.outputs = Some(outputs), !.status = "completed"]
    IN  Settle([ctx EXCEPT !.chain = Advance(WithStep(ctx.chain, ctx.step, done))],
               "resolved",
               [stepId |-> cur.id, outputs |-> outputs, success |-> TRUE])

\* callback 4
onWorkflowFinished(ctx, eventData) ==
    LET cur == ctx.chain.steps[ctx.step + 1]
    IN  IF eventData.data # Undefined /\ Get(eventData.data).error # Undefined
           /\ Truthy(Get(Get(eventData.data).error))
        THEN Settle([ctx EXCEPT !.chain = [WithStep(ctx.chain, ctx.step,
                                                    [cur EXCEPT !.status = "failed"])
                                           EXCEPT !.status = "failed"]],
                    "rejected", [error |-> Get(Get(eventData.data).error)])
        ELSE LET workflowOutputs ==
                     IF eventData.data # Undefined /\ Get(eventData.data).outputs # Undefined
                     THEN Get(Get(eventData.data).outputs) ELSE EmptyMap
                 outputs == Merge(ctx.nodeOutputs, workflowOutputs)
                 done == [cur EXCEPT !.outputs = Some(outputs), !.status = "completed"]
             IN  Settle([ctx EXCEPT !.chain = Advance(WithStep(ctx.chain, ctx.step, done))],
                        "resolved",
                        [stepId |-> cur.id, outputs |-> outputs, success |-> TRUE])

\* switch (data.event)
Recognised == {"workflow_started", "node_started", "node_finished", "workflow_finished", "error"}

Seen(ctx, data) ==
    IF data.event \in Recognised THEN [ctx EXCEPT !.events = Append(ctx.events, data)] ELSE ctx

\* the error record: throw new Error(data.message || 'Workflow execution failed'),
\* inside the try whose catch logs the failure and goes on with the next line
onErrorRecord(ctx, data) == ctx

Dispatch(ctx, data) ==
    CASE data.event = "node_finished" -> onNodeFinished(Seen(ctx, data), data)
      [] data.event = "workflow_finished" ->
            [onWorkflowFinished(Seen(ctx, data), data) EXCEPT !.returned = TRUE]
      [] data.event = "error" -> onErrorRecord(Seen(ctx, data), data)
      [] OTHER -> Seen(ctx, data)

\* (mutant) a payload that is no JSON ends the decode
HandleLine_BadLineEnds(ctx, line) ==
    IF Trim(line) = <<>> \/ ~StartsWith(line, Prefix)
    THEN ctx
    ELSE LET jsonString == Trim(Substring(line, Len(Prefix)))
         IN  IF jsonString = <<>> THEN ctx
             ELSE IF JSONParse(jsonString).ok
                  THEN Dispatch(ctx, JSONParse(jsonString).data)
                  ELSE [ctx EXCEPT !.returned = TRUE]

\* the body of the for loop over the complete lines
HandleLine(ctx, line) ==
    IF Trim(line) = <<>> \/ ~StartsWith(line, Prefix)
    THEN ctx
    ELSE LET jsonString == Trim(Substring(line, Len(Prefix)))
         IN  IF jsonString = <<>> THEN ctx
             ELSE IF JSONParse(jsonString).ok
                  THEN Dispatch(ctx, JSONParse(jsonString).data)
                  ELSE ctx

\* (mutant) the run-finish record ends the switch only, not the loop
RECURSIVE ProcessLines_PastFinish(_, _)
ProcessLines_PastFinish(ctx, lines) ==
    IF lines = <<>> THEN ctx
    ELSE ProcessLines_PastFinish(HandleLine(ctx, Head(lines)), Tail(lines))

\* for (const line of lines), left by the return of the run-finish case
RECURSIVE ProcessLines(_, _)
ProcessLines(ctx, lines) ==
    IF lines = <<>> \/ ctx.returned THEN ctx
    ELSE ProcessLines(HandleLine(ctx, Head(lines)), Tail(lines))

\* the context a call's callbacks run in: the call's locals and its chain object
Context(c) ==
    [chain |-> heap[c.chain], step |-> c.step, nodeOutputs |-> c.nodeOutputs,
     settled |-> c.settled, result |-> c.result, events |-> c.events, returned |-> FALSE]

\* the call after its callbacks ran
Back(c, ctx) ==
    [c EXCEPT !.nodeOutputs = ctx.nodeOutputs, !.settled = ctx.settled,
              !.result = ctx.result, !.events = ctx.events]

\* Object identity.  The Map holds references to chain objects, and a call keeps
\* the reference it read at its start, so a chain replaced or deleted during a
\* call lives on for that call.  References are numbers; which number an object
\* has is immaterial, so the object of chain id number n is kept at n and an
\* object only calls refer to at NIds + the first slot referring to it.
ChainIdSeq == <<"c1", "c2">>

ChainIds == {ChainIdSeq[n] : n \in 1..Len(ChainIdSeq)}

NIds == Len(ChainIdSeq)

Rank(id) == CHOOSE n \in 1..NIds : ChainIdSeq[n] = id

Refs == 1..(NIds + MaxInFlight)

Holders(cs, r) == {j \in Slots : cs[j].pc # "idle" /\ cs[j].chain = r}

Home(reg, cs, r) ==
    IF \E id \in DOMAIN reg : reg[id] = r
    THEN Rank(CHOOSE id \in DOMAIN reg : reg[id] = r)
    ELSE NIds + (CHOOSE j \in Holders(cs, r) : \A k \in Holders(cs, r) : j <= k)

Live(reg, cs) == {reg[id] : id \in DOMAIN reg} \cup {r \in Refs : Holders(cs, r) # {}}

\* the heap without the objects nothing refers to, every object at its home
CollectHeap(h, reg, cs) ==
    LET live == (DOMAIN h) \cap Live(reg, cs)
    IN  [n \in {Home(reg, cs, r) : r \in live} |->
            h[CHOOSE r \in live : Home(reg, cs, r) = n]]

CollectCalls(reg, cs) ==
    [i \in Slots |-> IF cs[i].pc = "idle" THEN cs[i]
                      ELSE [cs[i] EXCEPT !.chain = Home(reg, cs, cs[i].chain)]]

CollectRegistry(reg) == [id \in DOMAIN reg |-> Rank(id)]

\* a reference no live object has
FreshRef == NIds + MaxInFlight + 1

\* what the caller last saw: the return or throw of a synchronous operation, or
\* the end of a call (op = "ended") with the call as it was when it ended.  Two
\* fields are history: arg is the step list createChain was called with or the
\* userModifications executeNextStep was called with once past its checks, and
\* before is what the registry held under the id when createChain, resetChain
\* or deleteChain was called
Returned(op, chainId, err, val) ==
    [op |-> op, chainId |-> chainId, err |-> err, val |-> val, call |-> IdleCall,
     arg |-> Undefined, before |-> Undefined]

\* this.chains.get(chainId) at the start of an operation: status and cursor of
\* the chain found, or undefined
Before(chainId) ==
    IF chainId \in DOMAIN registry
    THEN Some([status |-> heap[registry[chainId]].status,
               currentStepIndex |-> heap[registry[chainId]].currentStepIndex])
    ELSE Undefined

Ended(c) ==
    [op |-> "ended", chainId |-> c.chainId,
     err |-> IF c.settled = "rejected" THEN Get(c.result).error ELSE "",
     val |-> IF c.settled = "resolved" THEN c.result ELSE Undefined,
     call |-> [c EXCEPT !.chain = 0],
     arg |-> Undefined, before |-> Undefined]


\* ------------------------------------------------------------ operations
Init ==
    /\ registry = [id \in {} |-> 0]
    /\ heap = [r \in {} |-> 0]
    /\ calls = [i \in Slots |-> IdleCall]
    /\ ret = Returned("init", "", "", Undefined)
    /\ ops = 0

\* this.chains.set(id, chain): an existing entry is replaced
CreateChain(id, steps) ==
    LET reg == [k \in (DOMAIN registry) \cup {id} |-> IF k = id THEN FreshRef ELSE registry[k]]
        h == [r \in (DOMAIN heap) \cup {FreshRef} |->
                 IF r = FreshRef THEN NewChain(id, "chain", steps) ELSE heap[r]]
    IN  /\ registry' = CollectRegistry(reg)
        /\ heap' = CollectHeap(h, reg, calls)
        /\ calls' = CollectCalls(reg, calls)
        /\ ret' = [Returned("createChain", id, "", Undefined)
                      EXCEPT !.arg = Some(steps), !.before = Before(id)]

\* step 3 of executeNextStep
\* (mutant) the user's edits are merged into those recorded before
RecordModifications_Merges(chain, userModifications) ==
    IF userModifications # Undefined
    THEN WithStep(chain, chain.currentStepIndex,
                  [chain.steps[chain.currentStepIndex + 1]
                      EXCEPT !.userModifications =
                                 Some(MergeOpt(Get(userModifications), @))])
    ELSE chain

\* (mutant) the user's edits are written into the defaults of the step
RecordModifications_IntoDefaults(chain, userModifications) ==
    IF userModifications # Undefined
    THEN WithStep(chain, chain.currentStepIndex,
                  [chain.steps[chain.currentStepIndex + 1]
                      EXCEPT !.userModifications = userModifications,
                             !.inputs = Merge(@, Get(userModifications))])
    ELSE chain

RecordModifications(chain, userModifications) ==
    IF userModifications # Undefined
    THEN WithStep(chain, chain.currentStepIndex,
                  [chain.steps[chain.currentStepIndex + 1]
                      EXCEPT !.userModifications = userModifications])
    ELSE chain

\* (mutant) only the chain is marked, the step keeps its status
MarkRunning_ChainOnly(chain) == [chain EXCEPT !.status = "running"]

\* the first statements of the promise executor
MarkRunning(chain) ==
    [WithStep(chain, chain.currentStepIndex,
              [chain.steps[chain.currentStepIndex + 1] EXCEPT !.status = "running"])
     EXCEPT !.status = "running"]

\* (mutant) a chain that has no step left is marked failed before the throw
ThrowEarly_MarksFailed(chainId, err) ==
    /\ ret' = Returned("executeNextStep", chainId, err, Undefined)
    /\ heap' = IF chainId \in DOMAIN registry
               THEN [heap EXCEPT ![registry[chainId]].status = "failed"]
               ELSE heap
    /\ UNCHANGED <<registry, calls>>

\* a throw of executeNextStep before it touched anything
ThrowEarly(chainId, err) ==
    /\ ret' = Returned("executeNextStep", chainId, err, Undefined)
    /\ UNCHANGED <<registry, heap, calls>>

\* executeNextStep up to its first await: the checks, the input mapping, the
\* status change and the request
ExecuteNextStep(chainId, userModifications) ==
    IF chainId \notin DOMAIN registry
    THEN ThrowEarly(chainId, "not found")
    ELSE LET ref == registry[chainId]
             chain == heap[ref]
         IN  IF StepAt(chain, chain.currentStepIndex) = Undefined
             THEN ThrowEarly(chainId, "no more steps")
             ELSE LET modified == RecordModifications(chain, userModifications)
                      mapping == StepInputs(modified)
                  IN  IF mapping.threw
                      THEN /\ heap' = [heap EXCEPT ![ref] = modified]
                           /\ ret' = [Returned("executeNextStep", chainId, "TypeError", Undefined)
                                         EXCEPT !.arg = userModifications]
                           /\ UNCHANGED <<registry, calls>>
                      ELSE \E i \in Slots :
                             /\ calls[i].pc = "idle"
                             /\ \A j \in Slots : j < i => calls[j].pc # "idle"
                             /\ heap' = [heap EXCEPT ![ref] = MarkRunning(modified)]
                             /\ calls' = [calls EXCEPT ![i] =
                                   [IdleCall EXCEPT !.pc = "fetching", !.chainId = chainId,
                                                    !.chain = ref,
                                                    !.step = chain.currentStepIndex,
                                                    !.cursor = chain.currentStepIndex,
                                                    !.mods = StepAtCursor(modified).userModifications,
                                                    !.retry = StepAtCursor(chain).status = "failed",
                                                    !.stepInputs = mapping.inputs]]
                             /\ ret' = [Returned("executeNextStep", chainId, "", Some(i))
                                           EXCEPT !.arg = userModifications]
                             /\ UNCHANGED registry

\* (mutant) the callbacks look the chain up by its id when they write
EndCall_ByChainId(i, c, chain) ==
    LET cs == [calls EXCEPT ![i] = IdleCall]
        target == IF c.chainId \in DOMAIN registry THEN registry[c.chainId] ELSE c.chain
    IN  /\ calls' = CollectCalls(registry, cs)
        /\ heap' = CollectHeap([heap EXCEPT ![target] = chain], registry, cs)
        /\ ret' = Ended(c)
        /\ UNCHANGED registry

\* (mutant) the status of the chain is kept once for the whole manager, so the
\* end of a call writes it on every chain
EndCall_SharedStatus(i, c, chain) ==
    LET cs == [calls EXCEPT ![i] = IdleCall]
        written == [heap EXCEPT ![c.chain] = chain]
        shared == [r \in DOMAIN written |-> [written[r] EXCEPT !.status = chain.status]]
    IN  /\ calls' = CollectCalls(registry, cs)
        /\ heap' = CollectHeap(shared, registry, cs)
        /\ ret' = Ended(c)
        /\ UNCHANGED registry

\* the call is over: its slot is free, its chain object is dropped when nothing
\* else refers to it, and the caller sees how it ended
EndCall(i, c, chain) ==
    LET cs == [calls EXCEPT ![i] = IdleCall]
    IN  /\ calls' = CollectCalls(registry, cs)
        /\ heap' = CollectHeap([heap EXCEPT ![c.chain] = chain], registry, cs)
        /\ ret' = Ended(c)
        /\ UNCHANGED registry

\* the await of fetch and the two checks of the response
FetchResponse(i, resp) ==
    /\ calls[i].pc = "fetching"
    /\ IF resp.kind = "stream"
       THEN /\ calls' = [calls EXCEPT ![i].pc = "reading", ![i].chunks = resp.chunks,
                                      ![i].readError = resp.readError,
                                      ![i].body = resp.chunks]
            /\ UNCHANGED <<registry, heap, ret>>
       ELSE LET ctx == CatchBlock(Context(calls[i]),
                                  CASE resp.kind = "status" -> "Workflow API error"
                                    [] resp.kind = "nobody" -> "No response body received"
                                    [] OTHER -> "fetch failed")
            IN  EndCall(i, [Back(calls[i], ctx) EXCEPT !.pc = "done"], ctx.chain)

\* (mutant) the partial line left by the last chunk is not put before the next
Buffered_DropsPartial(buffer, chunk) == chunk

\* buffer += decoder.decode(value, { stream: true })
Buffered(buffer, chunk) == buffer \o chunk

\* (mutant) the lock is released at the end of the try block, not in a finally
releaseLock_NotOnError(c) ==
    IF c.settled = "rejected" THEN c ELSE [c EXCEPT !.released = c.released + 1]

\* finally { reader.releaseLock() }
releaseLock(c) == [c EXCEPT !.released = c.released + 1]

\* one turn of the while loop: a read, the split of the buffer, the complete lines
ReadChunk(i) ==
    /\ calls[i].pc = "reading"
    /\ LET c == [calls[i] EXCEPT !.reads = calls[i].reads + 1]
       IN  IF c.chunks = <<>>
           THEN IF c.readError
                THEN LET ctx == CatchBlock(Context(c), "read failed")
                     IN  EndCall(i, releaseLock([Back(c, ctx) EXCEPT !.pc = "done"]), ctx.chain)
                ELSE EndCall(i, releaseLock([c EXCEPT !.pc = "done"]), heap[c.chain])
           ELSE LET parts == Split(Buffered(c.buffer, Head(c.chunks)))
                    lines == SubSeq(parts, 1, Len(parts) - 1)
                    ctx == ProcessLines(Context(c), lines)
                    after == [Back(c, ctx) EXCEPT !.buffer = parts[Len(parts)],
                                                  !.chunks = Tail(c.chunks)]
                IN  IF ctx.returned
                    THEN EndCall(i, releaseLock([after EXCEPT !.pc = "done"]), ctx.chain)
                    ELSE /\ calls' = [calls EXCEPT ![i] = after]
                         /\ heap' = [heap EXCEPT ![c.chain] = ctx.chain]
                         /\ UNCHANGED <<registry, ret>>

\* (mutant) the captured outputs survive the reset
ResetSteps_KeepsOutputs(chain) ==
    [chain EXCEPT !.currentStepIndex = 0,
                  !.status = "pending",
                  !.steps = [k \in 1..Len(chain.steps) |->
                                [chain.steps[k] EXCEPT !.status = "pending",
                                                       !.userModifications = Undefined]]]

\* (mutant) the user modifications survive the reset
ResetSteps_KeepsModifications(chain) ==
    [chain EXCEPT !.currentStepIndex = 0,
                  !.status = "pending",
                  !.steps = [k \in 1..Len(chain.steps) |->
                                [chain.steps[k] EXCEPT !.status = "pending",
                                                       !.outputs = Undefined]]]

\* the body of resetChain for a chain that exists
ResetSteps(chain) ==
    [chain EXCEPT !.currentStepIndex = 0,
                  !.status = "pending",
                  !.steps = [k \in 1..Len(chain.steps) |->
                                [chain.steps[k] EXCEPT !.status = "pending",
                                                       !.outputs = Undefined,
                                                       !.userModifications = Undefined]]]

ResetChain(chainId) ==
    /\ heap' = IF chainId \in DOMAIN registry
               THEN [heap EXCEPT ![registry[chainId]] = ResetSteps(heap[registry[chainId]])]
               ELSE heap
    /\ ret' = [Returned("resetChain", chainId, "", Undefined) EXCEPT !.before = Before(chainId)]
    /\ UNCHANGED <<registry, calls>>

\* (mutant) the entry stays in the Map
DeleteChain_KeepsEntry(chainId) ==
    /\ ret' = [Returned("deleteChain", chainId, "", Some(chainId \in DOMAIN registry))
                  EXCEPT !.before = Before(chainId)]
    /\ UNCHANGED <<registry, heap, calls>>

DeleteChain(chainId) ==
    LET reg == [k \in (DOMAIN registry) \ {chainId} |-> registry[k]]
    IN  /\ registry' = reg
        /\ heap' = CollectHeap(heap, reg, calls)
        /\ calls' = CollectCalls(reg, calls)
        /\ ret' = [Returned("deleteChain", chainId, "", Some(chainId \in DOMAIN registry))
                      EXCEPT !.before = Before(chainId)]

\* the queries: what each returns in the current state
getChain(id) == IF id \in DOMAIN registry THEN Some(heap[registry[id]]) ELSE Undefined

getCurrentStep(chainId) ==
    IF chainId \notin DOMAIN registry THEN Undefined
    ELSE StepAt(heap[registry[chainId]], heap[registry[chainId]].currentStepIndex)

\* chain?.status === 'completed' || false
isChainCompleted(chainId) ==
    chainId \in DOMAIN registry /\ heap[registry[chainId]].status = "completed"

hasNextStep(chainId) ==
    /\ chainId \in DOMAIN registry
    /\ heap[registry[chainId]].currentStepIndex < Len(heap[registry[chainId]].steps)

\* Array.from(this.chains.values()); the order of the array (that of insertion
\* into the Map) is left out, the result is the set of the chains
getAllChains == {heap[registry[id]] : id \in DOMAIN registry}

\* a query returns and writes nothing
Answer(op, chainId, val) ==
    /\ ret' = Returned(op, chainId, "", val)
    /\ UNCHANGED <<registry, heap, calls>>

GetChain(id) == Answer("getChain", id, getChain(id))

GetAllChains == Answer("getAllChains", "", Some(getAllChains))

GetCurrentStep(chainId) == Answer("getCurrentStep", chainId, getCurrentStep(chainId))

IsChainCompleted(chainId) == Answer("isChainCompleted", chainId, Some(isChainCompleted(chainId)))

\* (mutant) asking for the next step moves the cursor to it
HasNextStep_Consumes(chainId) ==
    /\ ret' = Returned("hasNextStep", chainId, "", Some(hasNextStep(chainId)))
    /\ heap' = IF hasNextStep(chainId)
               THEN [heap EXCEPT ![registry[chainId]].currentStepIndex = @ + 1]
               ELSE heap
    /\ UNCHANGED <<registry, calls>>

HasNextStep(chainId) == Answer("hasNextStep", chainId, Some(hasNextStep(chainId)))

\* every operation is called only when no earlier executeNextStep is still running
Quiet == \A i \in Slots : ~InFlight(calls[i])

\* one step of the program and its callers: the operations are called with chain
\* ids of ids, step lists of lists and modifications of mods, and the service
\* answers with responses of resps.  With sequential set a caller waits for the
\* end of the call in flight before the next operation; without it operations
\* overlap freely and at most MaxOps of them are called
Called(sequential) ==
    IF sequential THEN Quiet /\ ops' = ops ELSE ops < MaxOps /\ ops' = ops + 1

Step(ids, lists, mods, resps, sequential) ==
    \/ \E id \in ids, steps \in lists : Called(sequential) /\ CreateChain(id, steps)
    \/ \E id \in ids, m \in mods : Called(sequential) /\ ExecuteNextStep(id, m)
    \/ \E id \in ids : Called(sequential) /\ ResetChain(id)
    \/ \E id \in ids : Called(sequential) /\ DeleteChain(id)
    \/ \E i \in Slots : calls[i].pc = "fetching"
          /\ \E resp \in resps : FetchResponse(i, resp) /\ UNCHANGED ops
    \/ \E i \in Slots : ReadChunk(i) /\ UNCHANGED ops

\* the queries; they are synchronous and may be called while a call of
\* executeNextStep is waiting for the service
Queries(ids) ==
    \/ \E id \in ids : GetChain(id) /\ UNCHANGED ops
    \/ GetAllChains /\ UNCHANGED ops
    \/ \E id \in ids : GetCurrentStep(id) /\ UNCHANGED ops
    \/ \E id \in ids : IsChainCompleted(id) /\ UNCHANGED ops
    \/ \E id \in ids : HasNextStep(id) /\ UNCHANGED ops

\* concurrent callers on two chains
ConcLists == { <<ResearchDef>>, <<ResearchDef, PlainDef>> }

ConcResponses ==
    { NoStream("status"),
      Stream(CutAt(Line("nfA") \o Line("wfOk"), 4), FALSE),
      Stream(<<Line("wfErr")>>, FALSE) }

Next == Step(ChainIds, ConcLists, UserMods, ConcResponses, FALSE)

Spec == Init /\ [][Next]_vars

\* one caller at a time on one chain, every step list and every response
NextSeq == Step({"c1"}, StepLists, UserMods, Responses, TRUE)

SpecSeq == Init /\ [][NextSeq]_vars

\* overlapping callers on one two-step chain, the service answering with a
\* failure or with one of two successful streams that give different outputs
RaceResponses ==
    { NoStream("status"),
      Stream(<<Line("nfA"), Line("wfOk")>>, FALSE),
      Stream(<<Line("wfNoOut")>>, FALSE) }

NextRace == Step({"c1"}, {<<ResearchDef, PlainDef>>}, {Undefined}, RaceResponses, FALSE)

SpecRace == Init /\ [][NextRace]_vars

\* the registry with two chains and the queries; createChain, executeNextStep,
\* resetChain and deleteChain are called one at a time
RegLists == { <<>>, <<ResearchDef>>, <<ResearchDef, PlainDef>> }

NextReg == Step(ChainIds, RegLists, UserMods, ConcResponses, TRUE) \/ Queries(ChainIds)

SpecReg == Init /\ [][NextReg]_vars

\* The decoder on its own: one one-step chain, one call at a time, and the
\* service answering with a body that is one of DecodeTexts cut into at most
\* MaxChunks chunks at any positions, in the middle of a record, of the prefix
\* or of a line end included, or cut in two with a read that fails at its end.
BadLines ==
    <<" ", "NL">> \o <<"{", "nfB", "}", "NL">> \o <<"data:", " ", " ", "NL">>
       \o <<"data:", " ", "{", "nfB", "NL">>

DecodeTexts ==
    { Line("wfOk") \o Line("nfB") \o Line("nfA"),
      BadLines \o Line("nfA") \o Line("wfOk"),
      Line("ns") \o Line("nfB") \o <<"data:", " ", "{", "wfOk", "}">>,
      Line("errM") \o Line("nfA") \o Line("wfErr") }

\* text cut into k chunks after the positions at
ChunksAt(text, at, k) ==
    [j \in 1..k |-> SubSeq(text, (IF j = 1 THEN 0 ELSE at[j - 1]) + 1,
                               IF j = k THEN Len(text) ELSE at[j])]

Cuts(text) ==
    UNION { { ChunksAt(text, at, k) :
                at \in {f \in [1..(k - 1) -> 0..Len(text)] :
                            \A j \in 1..(k - 2) : f[j] <= f[j + 1]} } :
            k \in 1..MaxChunks }

DecodeResponses ==
    { NoStream("nobody") }
       \cup UNION { { Stream(chunks, FALSE) : chunks \in Cuts(text) } : text \in DecodeTexts }
       \cup UNION { { Stream(CutAt(text, n), TRUE) : n \in {4, Len(text)} } : text \in DecodeTexts }

NextDecode == Step({"c1"}, {<<ResearchDef>>}, {Undefined}, DecodeResponses, TRUE)

SpecDecode == Init /\ [][NextDecode]_vars

\* The input mapping on its own: a two-step chain whose first step has completed
\* with any of PrevOutputs and whose second step declares any of ResolveDefs.
SlotKeys == {"competitor_input", "current_de_op_input", "second_input", "extra"}

ResolveDefs == { StepDef("Resolved", "wf-2", "key-2", [k \in S |-> "D"]) : S \in SUBSET SlotKeys }

PrevOutputs ==
    UNION { [S -> {"", "X", "n1"}] : S \in SUBSET {"agent_output", "current_de_op_output", "extra"} }

ResolveMods ==
    { Undefined, Some([k \in {"extra"} |-> "Z"]),
      Some([k \in {"competitor_input", "second_input"} |-> "Z"]) }

ResolveResponses == { NoStream("status"), Stream(<<Line("nfA") \o Line("wfOk")>>, FALSE) }

FirstStepDone(d, p) ==
    LET chain == NewChain("c1", "chain", <<ResearchDef, d>>)
    IN  Advance(WithStep(chain, 0, [chain.steps[1] EXCEPT !.outputs = Some(p),
                                                           !.status = "completed"]))

InitResolve ==
    /\ \E d \in ResolveDefs, p \in PrevOutputs : heap = [r \in {Rank("c1")} |-> FirstStepDone(d, p)]
    /\ registry = [id \in {"c1"} |-> Rank("c1")]
    /\ calls = [i \in Slots |-> IdleCall]
    /\ ret = Returned("init", "", "", Undefined)
    /\ ops = 0

NextResolve == Step({"c1"}, {<<ResearchDef>>}, ResolveMods, ResolveResponses, TRUE)

SpecResolve == InitResolve /\ [][NextResolve]_vars

\* ------------------------------------------------------------ properties
ChainOf(id) == heap[registry[id]]

LastEvent(c) == c.events[Len(c.events)]

\* the call ended on a run-finish record that carries an error
FinishError(c) ==
    /\ c.events # <<>>
    /\ LastEvent(c).event = "workflow_finished"
    /\ LastEvent(c).data # Undefined
    /\ Get(LastEvent(c).data).error # Undefined
    /\ Truthy(Get(Get(LastEvent(c).data).error))

\* the call recognised an error record before any run-finish record
ErrorRecordFirst(c) ==
    \E n \in 1..Len(c.events) :
        /\ c.events[n].event = "error"
        /\ \A m \in 1..(n - 1) : c.events[m].event # "workflow_finished"

FirstErrorMessage(c) ==
    LET n == CHOOSE k \in 1..Len(c.events) :
                 c.events[k].event = "error" /\ \A m \in 1..(k - 1) : c.events[m].event # "error"
    IN  IF c.events[n].message # Undefined THEN Get(c.events[n].message) ELSE DefaultErrorMessage

\* C1: with every executeNextStep run to its end before the next operation, each
\* chain of the registry has 0 <= currentStepIndex <= steps.length, and the
\* cursor equals steps.length exactly when the chain status is 'completed'.
C1_CursorInvariant ==
    Quiet => \A id \in DOMAIN registry :
                /\ 0 <= ChainOf(id).currentStepIndex
                /\ ChainOf(id).currentStepIndex <= Len(ChainOf(id).steps)
                /\ (ChainOf(id).currentStepIndex = Len(ChainOf(id).steps)
                       <=> ChainOf(id).status = "completed")

\* C2: no two calls of executeNextStep are in flight on the same chain.
C2_OneInFlightPerChain ==
    \A i, j \in Slots :
        (i # j /\ InFlight(calls[i]) /\ InFlight(calls[j])) => calls[i].chain # calls[j].chain

\* C3: when a call started at cursor k has resolved, step k holds the returned
\* outputs and is 'completed', the cursor is k + 1, the chain is 'completed' if
\* k + 1 is the step count and 'pending' otherwise, and the result names step k
\* with success = true.
C3_SuccessEffects ==
    (ret.op = "ended" /\ ret.call.settled = "resolved") =>
        LET k == ret.call.cursor
            chain == ChainOf(ret.chainId)
            result == Get(ret.val)
        IN  /\ chain.steps[k + 1].outputs = Some(result.outputs)
            /\ chain.steps[k + 1].status = "completed"
            /\ chain.currentStepIndex = k + 1
            /\ chain.status = IF k + 1 = Len(chain.steps) THEN "completed" ELSE "pending"
            /\ result.success
            /\ result.stepId = chain.steps[k + 1].id

C3_Witness ==
    /\ ret.op = "ended" /\ ret.call.settled = "resolved"
    /\ ret.call.cursor = 1
    /\ ChainOf(ret.chainId).status = "pending"
    /\ ret.call.nodeOutputs # EmptyMap

\* C4: when the run-finish record carries an error, the call rejects with that
\* message, step and chain are 'failed', the cursor is where it was when the call
\* started and the step has no outputs.
C4_FinishErrorFails ==
    (ret.op = "ended" /\ FinishError(ret.call)) =>
        LET k == ret.call.cursor
            chain == ChainOf(ret.chainId)
        IN  /\ ret.call.settled = "rejected"
            /\ ret.err = Get(Get(LastEvent(ret.call).data).error)
            /\ chain.steps[k + 1].status = "failed"
            /\ chain.status = "failed"
            /\ chain.currentStepIndex = k
            /\ chain.steps[k + 1].outputs = Undefined

C4_Witness ==
    /\ ret.op = "ended" /\ FinishError(ret.call)
    /\ ret.call.cursor = 1
    /\ ret.call.nodeOutputs # EmptyMap

\* C5: when the stream has an error record before any run-finish record, the
\* call rejects with the record's message (or the default one) and step and chain
\* are 'failed' with the cursor where it was.
C5_ErrorRecordFails ==
    (ret.op = "ended" /\ ErrorRecordFirst(ret.call)) =>
        LET k == ret.call.cursor
            chain == ChainOf(ret.chainId)
        IN  /\ ret.call.settled = "rejected"
            /\ ret.err = FirstErrorMessage(ret.call)
            /\ chain.steps[k + 1].status = "failed"
            /\ chain.status = "failed"
            /\ chain.currentStepIndex = k

\* C6: a step has captured outputs only if its status is 'completed'.
C6_OutputsOnlyWhenCompleted ==
    \A r \in DOMAIN heap : \A n \in 1..Len(heap[r].steps) :
        heap[r].steps[n].outputs # Undefined => heap[r].steps[n].status = "completed"

\* C7: executeNextStep on a chain that is 'failed' at cursor k is accepted without
\* a reset and starts step k again, chain and step going from 'failed' to
\* 'running'; when that call resolves the cursor is k + 1 and step k 'completed'.
C7_RetryAccepted ==
    (/\ Quiet
     /\ ret'.op = "executeNextStep"
     /\ ret'.chainId \in DOMAIN registry
     /\ ChainOf(ret'.chainId).status = "failed") =>
        LET id == ret'.chainId
            k == ChainOf(id).currentStepIndex
        IN  /\ StepAtCursor(ChainOf(id)).status = "failed"
            /\ ret'.err = ""
            /\ \E i \in Slots : /\ calls'[i].pc = "fetching"
                                /\ calls'[i].chain = registry[id]
                                /\ calls'[i].step = k
                                /\ calls'[i].retry
            /\ heap'[registry[id]].status = "running"
            /\ heap'[registry[id]].steps[k + 1].status = "running"
            /\ heap'[registry[id]].currentStepIndex = k

C7_RetrySucceeds ==
    (ret.op = "ended" /\ ret.call.retry /\ ret.call.settled = "resolved") =>
        /\ ChainOf(ret.chainId).currentStepIndex = ret.call.cursor + 1
        /\ ChainOf(ret.chainId).steps[ret.call.cursor + 1].status = "completed"

C7_RetryAfterFailure == [][C7_RetryAccepted]_vars /\ []C7_RetrySucceeds

C7_Witness == ret.op = "ended" /\ ret.call.retry /\ ret.call.settled = "resolved"

\* C8: executeNextStep on an unknown chain id throws not-found, on a chain whose
\* cursor is at or beyond the step count it throws no-more-steps, and in both
\* cases registry, chains and calls are as before: nothing is recorded and no
\* request is made.
C8_EarlyThrow ==
    (Quiet /\ ret'.op = "executeNextStep") =>
        LET id == ret'.chainId
        IN  /\ id \notin DOMAIN registry =>
                  ret'.err = "not found" /\ UNCHANGED <<registry, heap, calls>>
            /\ (id \in DOMAIN registry
                  /\ ChainOf(id).currentStepIndex >= Len(ChainOf(id).steps)) =>
                  ret'.err = "no more steps" /\ UNCHANGED <<registry, heap, calls>>

C8_EarlyThrowLeavesAll == [][C8_EarlyThrow]_vars

C8_Witness ==
    /\ ret.op = "executeNextStep" /\ ret.err = "no more steps"
    /\ ChainOf(ret.chainId).status = "completed"
    /\ ChainOf(ret.chainId).currentStepIndex = 3

\* the step a call runs and the step before it
CallStep(c) == heap[c.chain].steps[c.step + 1]

CallPrev(c) == heap[c.chain].steps[c.step]

\* C9: every key of the user modifications recorded on the step of a call has
\* the user's value in the inputs sent, whatever the step position, the input
\* shape and the previous step's outputs.
C9_UserModificationsWin ==
    \A i \in Slots :
        (calls[i].pc = "fetching" /\ calls[i].mods # Undefined) =>
            \A K \in DOMAIN Get(calls[i].mods) :
                /\ K \in DOMAIN calls[i].stepInputs
                /\ calls[i].stepInputs[K] = Get(calls[i].mods)[K]

\* the named slots filled from the fields that are present in the previous outputs
NamedSlotsFilled(d, po) ==
    [k \in DOMAIN d |->
        IF k = "competitor_input" /\ "agent_output" \in DOMAIN po THEN po["agent_output"]
        ELSE IF k = "current_de_op_input" /\ "current_de_op_output" \in DOMAIN po
        THEN po["current_de_op_output"]
        ELSE d[k]]

DeclaresNamedSlot(d) == "competitor_input" \in DOMAIN d \/ "current_de_op_input" \in DOMAIN d

\* C10: for a step that declares competitor_input or current_de_op_input, the
\* inputs sent are the defaults with each declared slot taken from its source
\* field when that field is present in the previous outputs, then the user
\* modifications; nothing else of the previous outputs is copied.
C10_NamedSlotsFromPresentFields ==
    \A i \in Slots :
        (/\ calls[i].pc = "fetching"
         /\ calls[i].step > 0
         /\ CallPrev(calls[i]).outputs # Undefined
         /\ DeclaresNamedSlot(CallStep(calls[i]).inputs)) =>
            calls[i].stepInputs =
                MergeOpt(NamedSlotsFilled(CallStep(calls[i]).inputs,
                                          Get(CallPrev(calls[i]).outputs)),
                         calls[i].mods)

\* the generic slot filled from the first of agent_output, current_de_op_output
\* that is present in the previous outputs
GenericSlotFilled(d, po) ==
    [k \in DOMAIN d |->
        IF k = "second_input" /\ "agent_output" \in DOMAIN po THEN po["agent_output"]
        ELSE IF k = "second_input" /\ "current_de_op_output" \in DOMAIN po
        THEN po["current_de_op_output"]
        ELSE d[k]]

DeclaresGenericSlot(d) == "second_input" \in DOMAIN d /\ ~DeclaresNamedSlot(d)

\* C11: for a step that declares second_input and no named slot, executeNextStep
\* does not throw, and the inputs sent are the defaults with second_input taken
\* from agent_output when that field is present in the previous outputs, else
\* from current_de_op_output when present, else left at its default, then the
\* user modifications; no other previous-output field is copied.
C11_GenericSlotFromPresentFields ==
    /\ \A i \in Slots :
        (/\ calls[i].pc = "fetching"
         /\ calls[i].step > 0
         /\ CallPrev(calls[i]).outputs # Undefined
         /\ DeclaresGenericSlot(CallStep(calls[i]).inputs)) =>
            calls[i].stepInputs =
                MergeOpt(GenericSlotFilled(CallStep(calls[i]).inputs,
                                           Get(CallPrev(calls[i]).outputs)),
                         calls[i].mods)
    /\ (/\ ret.op = "executeNextStep"
        /\ ret.chainId \in DOMAIN registry
        /\ StepAt(ChainOf(ret.chainId), ChainOf(ret.chainId).currentStepIndex) # Undefined
        /\ DeclaresGenericSlot(StepAtCursor(ChainOf(ret.chainId)).inputs)) =>
            ret.err # "TypeError"

\* three maps laid over each other, the later one winning on a shared key
Layered(low, mid, top) ==
    [k \in (DOMAIN low) \cup (DOMAIN mid) \cup (DOMAIN top) |->
        IF k \in DOMAIN top THEN top[k] ELSE IF k \in DOMAIN mid THEN mid[k] ELSE low[k]]

OrEmpty(o) == IF o = Undefined THEN EmptyMap ELSE Get(o)

DeclaresNoSlot(d) == ~DeclaresNamedSlot(d) /\ "second_input" \notin DOMAIN d

\* C12: for a step that declares none of competitor_input, current_de_op_input
\* and second_input, the inputs sent are the defaults, over them every key of the
\* previous step's outputs, over those the user modifications; at cursor 0 they
\* are the defaults with the user modifications over them.
C12_DefaultMerge ==
    \A i \in Slots :
        (calls[i].pc = "fetching" /\ DeclaresNoSlot(CallStep(calls[i]).inputs)) =>
            /\ calls[i].step = 0 =>
                   calls[i].stepInputs =
                       Layered(CallStep(calls[i]).inputs, EmptyMap, OrEmpty(calls[i].mods))
            /\ (calls[i].step > 0 /\ CallPrev(calls[i]).outputs # Undefined) =>
                   calls[i].stepInputs =
                       Layered(CallStep(calls[i]).inputs, Get(CallPrev(calls[i]).outputs),
                               OrEmpty(calls[i].mods))

C12_Witness ==
    \E i \in Slots :
        /\ calls[i].pc = "fetching" /\ calls[i].step = 1
        /\ CallStep(calls[i]).inputs = [k \in {"extra"} |-> "D"]
        /\ CallPrev(calls[i]).outputs = Some([k \in {"agent_output", "extra"} |-> "X"])
        /\ calls[i].mods = Undefined
        /\ calls[i].stepInputs = [k \in {"agent_output", "extra"} |-> "X"]

\* the output map a record carries, empty when it carries none
FragmentOf(e) ==
    IF e.data # Undefined /\ Get(e.data).outputs # Undefined
    THEN Get(Get(e.data).outputs) ELSE EmptyMap

\* the node-finish records of a call that carry key k
NodeFinishedWith(events, k) ==
    {n \in 1..Len(events) : events[n].event = "node_finished" /\ k \in DOMAIN FragmentOf(events[n])}

\* the value the claim gives key k: the run-finish record's, else the one of the
\* last node-finish fragment that has the key
ExpectedOutput(events, k) ==
    IF k \in DOMAIN FragmentOf(events[Len(events)])
    THEN FragmentOf(events[Len(events)])[k]
    ELSE LET last == CHOOSE n \in NodeFinishedWith(events, k) :
                         \A m \in NodeFinishedWith(events, k) : m <= n
         IN  FragmentOf(events[last])[k]

ExpectedKeys(events) ==
    UNION {DOMAIN FragmentOf(events[n]) :
              n \in {m \in 1..Len(events) :
                        events[m].event \in {"node_finished", "workflow_finished"}}}

\* C13: when a call resolves, the outputs returned and the outputs stored on
\* the step are the node-finish fragments merged in arrival order, a later
\* fragment overwriting an earlier one on a shared key, with the run-finish
\* outputs merged last, so that on a shared key the run-finish value wins.
C13_OutputsMergeOrder ==
    (ret.op = "ended" /\ ret.call.settled = "resolved") =>
        LET events == ret.call.events
            outputs == Get(ret.val).outputs
        IN  /\ LastEvent(ret.call).event = "workflow_finished"
            /\ DOMAIN outputs = ExpectedKeys(events)
            /\ \A k \in DOMAIN outputs : outputs[k] = ExpectedOutput(events, k)
            /\ ChainOf(ret.chainId).steps[ret.call.cursor + 1].outputs = Some(outputs)

C13_Witness ==
    /\ ret.op = "ended" /\ ret.call.settled = "resolved"
    /\ Len(SelectSeq(ret.call.events, LAMBDA e : e.event = "node_finished")) = 3
    /\ Get(ret.val).outputs =
           [k \in {"agent_output", "extra", "current_de_op_output"} |->
               CASE k = "agent_output" -> "Y" [] k = "extra" -> "E2" [] OTHER -> "O"]

\* the fields of a step that createChain takes from the step definition
Definition(step) ==
    [name |-> step.name, workflowId |-> step.workflowId, apiKey |-> step.apiKey,
     inputs |-> step.inputs, allowUserEdit |-> step.allowUserEdit]

\* C14: resetChain on a chain of the registry, whatever its state, leaves it with
\* cursor 0 and status 'pending', every step 'pending' without outputs and
\* without user modifications, and changes nothing else; on an unknown id it
\* changes nothing; it never throws.
C14_Reset ==
    (Quiet /\ ret'.op = "resetChain") =>
        LET id == ret'.chainId
        IN  /\ ret'.err = ""
            /\ UNCHANGED <<registry, calls>>
            /\ id \notin DOMAIN registry => UNCHANGED heap
            /\ id \in DOMAIN registry =>
                 LET old == heap[registry[id]]
                     new == heap'[registry[id]]
                 IN  /\ new.currentStepIndex = 0
                     /\ new.status = "pending"
                     /\ new.id = old.id /\ new.name = old.name
                     /\ Len(new.steps) = Len(old.steps)
                     /\ \A n \in 1..Len(new.steps) :
                            /\ new.steps[n].status = "pending"
                            /\ new.steps[n].outputs = Undefined
                            /\ new.steps[n].userModifications = Undefined
                            /\ new.steps[n].id = old.steps[n].id
                            /\ Definition(new.steps[n]) = Definition(old.steps[n])
                     /\ \A r \in DOMAIN heap : r # registry[id] => heap'[r] = heap[r]

C14_ResetChain == [][C14_Reset]_vars

C14_Witness ==
    /\ ret.op = "resetChain"
    /\ ret.before = Some([status |-> "completed", currentStepIndex |-> 3])
    /\ ChainOf(ret.chainId).status = "pending"
    /\ ChainOf(ret.chainId).currentStepIndex = 0

\* the step definitions a chain was created from
DefinitionsOf(chain) == [n \in 1..Len(chain.steps) |-> Definition(chain.steps[n])]

\* C15: a chain that was executed, with successes and failures, and then reset
\* is the chain createChain builds from the same step definitions; every
\* request of executeNextStep is computed from the chain and the call's
\* arguments alone, so from there on both issue the same requests.
C15_ResetIsFresh ==
    (ret.op = "resetChain" /\ ret.chainId \in DOMAIN registry) =>
        ChainOf(ret.chainId) =
            NewChain(ret.chainId, ChainOf(ret.chainId).name, DefinitionsOf(ChainOf(ret.chainId)))

C15_Witness ==
    /\ ret.op = "resetChain"
    /\ ret.before = Some([status |-> "failed", currentStepIndex |-> 2])
    /\ ChainOf(ret.chainId) = NewChain(ret.chainId, "chain", <<ResearchDef, GenericDef, PlainDef>>)

\* C16: createChain with an id the registry already holds fails, and the chain
\* registered under the id keeps its cursor and status.
C16_DuplicateRejected ==
    (ret.op = "createChain" /\ ret.before # Undefined) =>
        /\ ret.err # ""
        /\ ChainOf(ret.chainId).status = Get(ret.before).status
        /\ ChainOf(ret.chainId).currentStepIndex = Get(ret.before).currentStepIndex

\* C17: createChain with an id the registry does not hold registers a chain with
\* cursor 0 and status 'pending' whose steps are the given definitions in the
\* given order, each 'pending' and without outputs, the step at position i
\* having the id <chainId>-step-<i>, so that the step ids of a chain differ.
C17_FreshChain ==
    (ret.op = "createChain" /\ ret.before = Undefined) =>
        /\ ret.err = ""
        /\ ret.chainId \in DOMAIN registry
        /\ LET steps == Get(ret.arg)
               chain == ChainOf(ret.chainId)
           IN  /\ chain.id = ret.chainId
               /\ chain.currentStepIndex = 0
               /\ chain.status = "pending"
               /\ Len(chain.steps) = Len(steps)
               /\ \A n \in 1..Len(chain.steps) :
                      /\ Definition(chain.steps[n]) = steps[n]
                      /\ chain.steps[n].status = "pending"
                      /\ chain.steps[n].outputs = Undefined
                      /\ chain.steps[n].id = <<ret.chainId, "step", n - 1>>
               /\ \A m, n \in 1..Len(chain.steps) :
                      m # n => chain.steps[m].id # chain.steps[n].id

C17_Witness ==
    /\ ret.op = "createChain" /\ ret.before = Undefined
    /\ Len(Get(ret.arg)) = 3
    /\ Len(ChainOf(ret.chainId).steps) = 3

\* C18, the answers: for an id the registry does not hold, getChain and
\* getCurrentStep returned none, isChainCompleted and hasNextStep returned false,
\* and no chain getAllChains returned has an id outside the registry.
C18_AnswersNotFound ==
    /\ (ret.op \in {"getChain", "getCurrentStep"} /\ ret.chainId \notin DOMAIN registry) =>
           ret.val = Undefined
    /\ (ret.op \in {"isChainCompleted", "hasNextStep"} /\ ret.chainId \notin DOMAIN registry) =>
           ret.val = Some(FALSE)
    /\ ret.op = "getAllChains" =>
           {c.id : c \in Get(ret.val)} = DOMAIN registry

\* C18, the operations: deleteChain(id) takes id, and nothing else, out of the
\* registry and leaves every other chain as it was; on an id the registry does
\* not hold resetChain changes nothing and executeNextStep throws not-found and
\* changes nothing.
C18_Operations ==
    /\ (Quiet /\ ret'.op = "deleteChain") =>
           /\ DOMAIN registry' = (DOMAIN registry) \ {ret'.chainId}
           /\ \A id \in DOMAIN registry' : heap'[registry'[id]] = heap[registry[id]]
           /\ calls' = calls
    /\ (Quiet /\ ret'.op = "resetChain" /\ ret'.chainId \notin DOMAIN registry) =>
           ret'.err = "" /\ UNCHANGED <<registry, heap, calls>>
    /\ (Quiet /\ ret'.op = "executeNextStep" /\ ret'.chainId \notin DOMAIN registry) =>
           ret'.err = "not found" /\ UNCHANGED <<registry, heap, calls>>

\* C18: after deleteChain(id) and until createChain(id) the id behaves as
\* not found, and the other chains are unchanged.
C18_DeletedIsNotFound == [][C18_Operations]_vars /\ []C18_AnswersNotFound

C18_Witness ==
    /\ ret.op = "deleteChain" /\ ret.chainId = "c1"
    /\ ret.before = Some([status |-> "completed", currentStepIndex |-> 2])
    /\ ret.val = Some(TRUE)
    /\ getChain("c1") = Undefined /\ getCurrentStep("c1") = Undefined
    /\ ~isChainCompleted("c1") /\ ~hasNextStep("c1")
    /\ "c2" \in DOMAIN registry
    /\ ChainOf("c2").currentStepIndex = 1

QueryOps == {"getChain", "getAllChains", "getCurrentStep", "isChainCompleted", "hasNextStep"}

\* a query changes neither the registry nor any chain nor any call
C19_Frame ==
    (ret'.op \in QueryOps /\ ret' # ret) => UNCHANGED <<registry, heap, calls, ops>>

\* the answer a query gave is the answer it gives when asked again
C19_SameAnswerAgain ==
    /\ ret.op = "getChain" => ret.val = getChain(ret.chainId)
    /\ ret.op = "getAllChains" => ret.val = Some(getAllChains)
    /\ ret.op = "getCurrentStep" => ret.val = getCurrentStep(ret.chainId)
    /\ ret.op = "isChainCompleted" => ret.val = Some(isChainCompleted(ret.chainId))
    /\ ret.op = "hasNextStep" => ret.val = Some(hasNextStep(ret.chainId))

\* C19: getChain, getAllChains, getCurrentStep, isChainCompleted and hasNextStep
\* leave registry, chains and calls unchanged, for ids the registry holds and for
\* ids it does not, and asked twice in a row they give the same answer.
C19_QueriesArePure == [][C19_Frame]_vars /\ []C19_SameAnswerAgain

C19_Witness ==
    /\ ret.op = "hasNextStep" /\ ret.chainId = "c1" /\ ret.val = Some(TRUE)
    /\ "c1" \in DOMAIN registry /\ ChainOf("c1").currentStepIndex = 1
    /\ ChainOf("c1").steps[1].outputs # Undefined
    /\ "c2" \notin DOMAIN registry

\* C20: getCurrentStep returns the step at the cursor, and none exactly when the
\* chain is unknown or its status is 'completed'; for every chain of the registry
\* hasNextStep holds exactly when getCurrentStep returns a step, and
\* isChainCompleted and hasNextStep do not hold together.
C20_CurrentStep ==
    /\ ret.op = "getCurrentStep" =>
           /\ (ret.chainId \in DOMAIN registry /\ ret.val # Undefined) =>
                  ret.val = Some(StepAtCursor(ChainOf(ret.chainId)))
           /\ ret.val = Undefined <=>
                  (ret.chainId \notin DOMAIN registry \/ isChainCompleted(ret.chainId))
    /\ \A id \in DOMAIN registry :
           /\ hasNextStep(id) <=> getCurrentStep(id) # Undefined
           /\ ~(isChainCompleted(id) /\ hasNextStep(id))

\* the step taken is a call of operation op on chain id: the calls are counted
\* where they overlap and are made in a quiet state where they do not
Calls(op, id) == ret'.op = op /\ ret'.chainId = id /\ (ops' # ops \/ Quiet)

\* the chain object registered under id is the same before and after the step
SameInstance(id) ==
    /\ id \in DOMAIN registry /\ id \in DOMAIN registry'
    /\ ~Calls("createChain", id) /\ ~Calls("deleteChain", id)

\* C21: the outputs of a step change only from none to a map, in the step that
\* makes it 'completed', or back to none by resetChain.
C21_Written ==
    \A id \in ChainIds : SameInstance(id) =>
        \A n \in 1..Len(ChainOf(id).steps) :
            LET old == ChainOf(id).steps[n]
                new == heap'[registry'[id]].steps[n]
            IN  new.outputs # old.outputs =>
                    \/ Calls("resetChain", id) /\ new.outputs = Undefined
                    \/ /\ old.outputs = Undefined
                       /\ old.status # "completed" /\ new.status = "completed"

C21_OutputsWrittenOnce == [][C21_Written]_vars

\* the call in slot i ends in the step taken, on a chain object of the registry
EndsOnRegistered(i) ==
    /\ InFlight(calls[i]) /\ calls'[i].pc = "idle"
    /\ \E id \in DOMAIN registry : registry[id] = calls[i].chain

\* C22: the cursor of a chain object decreases only by resetChain; a call of
\* executeNextStep that resolves adds exactly 1 to it, and one that throws,
\* rejects or ends unsettled leaves it as it is.
C22_Cursor ==
    /\ \A id \in ChainIds : SameInstance(id) =>
           /\ heap'[registry'[id]].currentStepIndex < ChainOf(id).currentStepIndex =>
                  Calls("resetChain", id)
           /\ Calls("executeNextStep", id) =>
                  heap'[registry'[id]].currentStepIndex = ChainOf(id).currentStepIndex
    /\ \A i \in Slots : EndsOnRegistered(i) =>
           heap'[calls[i].chain].currentStepIndex =
               heap[calls[i].chain].currentStepIndex
                   + (IF ret'.call.settled = "resolved" THEN 1 ELSE 0)

C22_CursorMonotonic == [][C22_Cursor]_vars

C22_Witness ==
    /\ ret.op = "ended" /\ ret.call.settled = "rejected" /\ ret.call.cursor = 1
    /\ ret.chainId \in DOMAIN registry
    /\ ChainOf(ret.chainId).currentStepIndex = 1
    /\ ChainOf(ret.chainId).steps[1].status = "completed"

StatusChanges ==
    { <<"pending", "running">>, <<"running", "completed">>, <<"running", "failed">>,
      <<"failed", "running">> }

\* C23: a step's status changes only from pending to running, from running to
\* completed or failed, from failed to running, or to pending by resetChain.
C23_StepStatus ==
    \A id \in ChainIds : SameInstance(id) =>
        \A n \in 1..Len(ChainOf(id).steps) :
            LET old == ChainOf(id).steps[n].status
                new == heap'[registry'[id]].steps[n].status
            IN  new # old =>
                    \/ <<old, new>> \in StatusChanges
                    \/ Calls("resetChain", id) /\ new = "pending"

C23_StepStatusChanges == [][C23_StepStatus]_vars

\* C24: executeNextStep sends the request of a step only when every earlier
\* step of the chain is 'completed' and has its outputs, however the calls on
\* the chain and their completions interleave.
C24_Invoked ==
    \A id \in ChainIds :
        (Calls("executeNextStep", id) /\ ret'.val # Undefined) =>
            LET c == calls'[Get(ret'.val)]
            IN  \A k \in 0..(c.step - 1) :
                    /\ heap'[c.chain].steps[k + 1].status = "completed"
                    /\ heap'[c.chain].steps[k + 1].outputs # Undefined

C24_StrictSequence == [][C24_Invoked]_vars

\* a call without the reference to its chain object, which is compared apart
Locals(c) == [c EXCEPT !.chain = 0]

\* nothing of chain id changes: its registry entry, its chain object, the calls
\* made on it and the chain objects those calls hold
Untouched(id) ==
    /\ (id \in DOMAIN registry) = (id \in DOMAIN registry')
    /\ id \in DOMAIN registry => heap'[registry'[id]] = heap[registry[id]]
    /\ \A i \in Slots :
          /\ (calls[i].pc # "idle" /\ calls[i].chainId = id) =>
                /\ Locals(calls'[i]) = Locals(calls[i])
                /\ heap'[calls'[i].chain] = heap[calls[i].chain]
          /\ (calls'[i].pc # "idle" /\ calls'[i].chainId = id) => calls[i].pc # "idle"

\* slot i takes a step of its call: the answer to the request or a chunk
Continues(i) ==
    /\ InFlight(calls[i]) /\ ops' = ops
    /\ Locals(calls'[i]) # Locals(calls[i])

\* C25: what a call of executeNextStep does, at its start and on every answer and
\* chunk, changes only the chain it was made on: the registry entries, chain
\* objects and calls of every other chain id stay as they are, while calls on
\* two chains are in flight and their events interleave.  A call that resolves
\* returns the outputs of its own records and leaves them on its own chain, with
\* the cursor one step further.
C25_OwnChainOnly ==
    /\ \A id \in ChainIds : Calls("executeNextStep", id) =>
            \A other \in ChainIds \ {id} : Untouched(other)
    /\ \A i \in Slots : Continues(i) =>
          /\ \A other \in ChainIds \ {calls[i].chainId} : Untouched(other)
          /\ ret' # ret => ret'.chainId = calls[i].chainId
          /\ (calls'[i].pc = "idle" /\ ret'.call.settled = "resolved") =>
                LET events == ret'.call.events
                    outputs == Get(ret'.val).outputs
                    k == calls[i].step
                IN  /\ DOMAIN outputs = ExpectedKeys(events)
                    /\ \A key \in DOMAIN outputs : outputs[key] = ExpectedOutput(events, key)
                    /\ Get(ret'.val).stepId = heap[calls[i].chain].steps[k + 1].id
                    /\ EndsOnRegistered(i) =>
                          /\ heap'[calls[i].chain].steps[k + 1].outputs = Some(outputs)
                          /\ heap'[calls[i].chain].steps[k + 1].status = "completed"
                          /\ heap'[calls[i].chain].currentStepIndex =
                                 heap[calls[i].chain].currentStepIndex + 1

C25_ChainsIndependent == [][C25_OwnChainOnly]_vars

\* a call on one chain has resolved while a call on the other chain is in the
\* middle of its stream
C25_Witness ==
    /\ ret.op = "ended" /\ ret.call.settled = "resolved"
    /\ \E j \in Slots :
          /\ calls[j].pc = "reading" /\ calls[j].chainId # ret.chainId
          /\ calls[j].buffer # <<>>
          /\ calls[j].chainId \in DOMAIN registry
          /\ ChainOf(calls[j].chainId).status = "running"

\* the calls whose request goes out in this step: fetch is called in the
\* synchronous part of executeNextStep, where the call takes its slot
Requested == {i \in Slots : calls[i].pc = "idle" /\ calls'[i].pc = "fetching"}

\* C26: a call of executeNextStep that passes the not-found and no-more-steps
\* checks sends exactly one request, and no request is sent in any other step:
\* none when a call fails or at any time after, until executeNextStep is called
\* again.
C26_Requests ==
    IF \E id \in ChainIds : Calls("executeNextStep", id)
    THEN ret'.err \notin {"not found", "no more steps"} => Cardinality(Requested) = 1
    ELSE Requested = {}

C26_OneRequestPerCall == [][C26_Requests]_vars

\* no request is sent except by a call of executeNextStep, one at most
C26_NoRetry ==
    [][Cardinality(Requested) <= 1
          /\ (Requested # {} => \E id \in ChainIds : Calls("executeNextStep", id))]_vars

\* the call ended after it got a response body
Decoded(c) == c.reads > 0

\* the decoder run on the whole text of the body as one chunk, for the call c
\* that ended with its chain object chain
SingleChunk(c, chain) ==
    LET parts == Split(Buffered(<<>>, Flatten(c.body)))
    IN  ProcessLines([chain |-> chain, step |-> c.step, nodeOutputs |-> EmptyMap,
                      settled |-> "none", result |-> Undefined, events |-> <<>>,
                      returned |-> FALSE],
                     SubSeq(parts, 1, Len(parts) - 1))

\* C27: however the text of a response body is cut into chunks, in the middle
\* of a record too, the decoder dispatches the records it dispatches for the
\* whole text as one chunk, in the same order, and ends on a run-finish
\* record in the one case exactly when it does in the other.
C27_ChunkingInvariant ==
    (ret.op = "ended" /\ Decoded(ret.call) /\ ret.chainId \in DOMAIN registry) =>
        LET one == SingleChunk(ret.call, ChainOf(ret.chainId))
        IN  /\ ret.call.events = one.events
            /\ ret.call.nodeOutputs = one.nodeOutputs
            /\ (ret.call.settled = "resolved") = (one.settled = "resolved")
            /\ ret.call.settled = "resolved" => ret.call.result = one.result

\* the body came in three chunks, the first cut inside the prefix of a record
\* and the second inside its line end, and the call resolved
C27_Witness ==
    /\ ret.op = "ended" /\ ret.call.settled = "resolved"
    /\ ret.call.body = << BadLines \o <<"data:">>,
                          <<" ", "{", "nfA", "}", "NL", "data:", " ", "{", "wfOk", "}">>,
                          <<"NL">> >>
    /\ ret.call.reads = 3
    /\ Len(ret.call.events) = 2

\* the positions of the run-finish records among the records a call dispatched
Finishes(c) == {n \in 1..Len(c.events) : c.events[n].event = "workflow_finished"}

\* the read after the last chunk failed
ReadFailed(c) == Finishes(c) = {} /\ c.chunks = <<>> /\ c.readError

\* C28: a call that has dispatched a run-finish record reads no more and
\* dispatches no more: no call still reading has dispatched one, the run-finish
\* record is the last record of the call that dispatched it, later lines of its
\* chunk and later chunks notwithstanding, and the call has made no more reads
\* than the chunks up to that record.  A decode that ends without an error has
\* ended on a run-finish record or has read the body to its end.
C28_FinishEndsDecode ==
    /\ \A i \in Slots : calls[i].pc = "reading" => Finishes(calls[i]) = {}
    /\ (ret.op = "ended" /\ Decoded(ret.call)) =>
          LET c == ret.call
          IN  /\ Finishes(c) \subseteq {Len(c.events)}
              /\ Finishes(c) # {} =>
                    /\ c.reads = Len(c.body) - Len(c.chunks)
                    /\ c.settled # "none"
              /\ (Finishes(c) = {} /\ ~ReadFailed(c)) =>
                    /\ c.chunks = <<>>
                    /\ c.reads = Len(c.body) + 1
              /\ ReadFailed(c) => c.settled = "rejected" /\ ret.err = "read failed"

\* the run-finish record came first in its chunk, before another record, and a
\* further chunk with a third record was never read
C28_Witness ==
    /\ ret.op = "ended" /\ ret.call.settled = "resolved"
    /\ ret.call.body = <<Line("wfOk") \o Line("nfB"), Line("nfA")>>
    /\ ret.call.reads = 1
    /\ ret.call.chunks = <<Line("nfA")>>
    /\ Len(ret.call.events) = 1

\* C29: a call that got the reader of a response body has released its lock
\* exactly once when the call is over, whether the decode ended on a run-finish
\* record, at the end of the body or on a failed read; while the decode goes on
\* the lock is held, and a call that got no body has nothing to release.
C29_LockReleasedOnce ==
    /\ \A i \in Slots : InFlight(calls[i]) => calls[i].released = 0
    /\ ret.op = "ended" =>
          ret.call.released = IF Decoded(ret.call) THEN 1 ELSE 0

\* a read failed after two chunks whose records were dispatched
C29_Witness ==
    /\ ret.op = "ended" /\ ret.err = "read failed"
    /\ ret.call.reads = 3
    /\ ret.call.released = 1
    /\ ret.call.events # <<>>

\* the lines of a response body that a newline ends
CompleteLines(c) ==
    LET parts == Split(Flatten(c.body)) IN SubSeq(parts, 1, Len(parts) - 1)

Payload(line) == Trim(Substring(line, Len(Prefix)))

\* a well-formed record: not empty after trimming, the prefix first, then a JSON
\* document with an event the decoder knows
IsRecord(line) ==
    /\ Trim(line) # <<>>
    /\ StartsWith(line, Prefix)
    /\ JSONParse(Payload(line)).ok
    /\ JSONParse(Payload(line)).data.event \in Recognised

RecordsIn(lines) ==
    LET records == SelectSeq(lines, IsRecord)
    IN  [n \in 1..Len(records) |-> JSONParse(Payload(records[n])).data]

\* the records up to the first run-finish record, all of them when there is none
UpToFinish(events) ==
    LET finishes == {n \in 1..Len(events) : events[n].event = "workflow_finished"}
    IN  IF finishes = {} THEN events
        ELSE SubSeq(events, 1, CHOOSE n \in finishes : \A m \in finishes : n <= m)

\* C30: a line that is empty after trimming, lacks the 'data: ' prefix or
\* carries no valid JSON dispatches nothing and does not end the decode: the
\* call dispatches exactly the well-formed records of the body, those after
\* such a line too, up to the run-finish record, and when that record carries
\* no error the call resolves and the step is 'completed'.
C30_MalformedLinesSkipped ==
    (ret.op = "ended" /\ Decoded(ret.call) /\ ret.chainId \in DOMAIN registry) =>
        LET c == ret.call
        IN  /\ c.events = UpToFinish(RecordsIn(CompleteLines(c)))
            /\ (Finishes(c) # {} /\ ~FinishError(c)) =>
                  /\ c.settled = "resolved"
                  /\ ChainOf(ret.chainId).steps[c.step + 1].status = "completed"

\* a body that begins with a blank line, a line without the prefix, a prefix
\* without a payload and a payload that is no JSON: the two records after them
\* were dispatched and the step completed with their outputs
C30_Witness ==
    /\ ret.op = "ended" /\ ret.call.settled = "resolved"
    /\ ret.call.body = <<BadLines \o Line("nfA") \o Line("wfOk")>>
    /\ ret.call.events = <<EventOf["nfA"], EventOf["wfOk"]>>
    /\ Get(ret.val).outputs = Merge(FragA, FinalOut)
    /\ ChainOf(ret.chainId).steps[1].status = "completed"

\* the messages of the two checks of the response
TransportErrors == {"Workflow API error", "No response body received"}

\* C31: when the service answers with a non-success status or without a body,
\* the call is over before any read and any record, executeNextStep rejects,
\* step and chain are 'failed', the cursor is where it was when the call
\* started and the step has no outputs.
C31_TransportFailure ==
    (ret.op = "ended" /\ ret.err \in TransportErrors) =>
        LET c == ret.call
            chain == ChainOf(ret.chainId)
        IN  /\ c.reads = 0 /\ c.released = 0
            /\ c.events = <<>>
            /\ c.settled = "rejected"
            /\ chain.steps[c.cursor + 1].status = "failed"
            /\ chain.status = "failed"
            /\ chain.currentStepIndex = c.cursor
            /\ chain.steps[c.cursor + 1].outputs = Undefined

\* the second step of a chain got no response body
C31_Witness ==
    /\ ret.op = "ended" /\ ret.err = "No response body received"
    /\ ret.call.cursor = 1
    /\ ChainOf(ret.chainId).steps[1].status = "completed"
    /\ ChainOf(ret.chainId).steps[2].status = "failed"

\* the chaining slots that are in force for the defaults d: the named slots,
\* or second_input when no named slot is declared
ChainingSlots(d) ==
    IF DeclaresNamedSlot(d)
    THEN (DOMAIN d) \cap {"competitor_input", "current_de_op_input"}
    ELSE (DOMAIN d) \cap {"second_input"}

\* the source fields of slot k, the preferred one first
SourcesOf(k) ==
    CASE k = "competitor_input" -> <<"agent_output">>
      [] k = "current_de_op_input" -> <<"current_de_op_output">>
      [] OTHER -> <<"agent_output", "current_de_op_output">>

\* C32: in the inputs sent, a chaining slot that the user did not modify has the
\* value of its first source field that is present in the previous outputs,
\* whatever that value is, the empty string and zero included; it has its
\* default only when none of its source fields is present.
C32_SlotFromPresentField ==
    \A i \in Slots :
        (/\ calls[i].pc = "fetching"
         /\ calls[i].step > 0
         /\ CallPrev(calls[i]).outputs # Undefined) =>
            LET d == CallStep(calls[i]).inputs
                po == Get(CallPrev(calls[i]).outputs)
                modified == IF calls[i].mods = Undefined THEN {}
                            ELSE DOMAIN Get(calls[i].mods)
            IN  \A k \in ChainingSlots(d) \ modified :
                    LET present == {n \in 1..Len(SourcesOf(k)) : SourcesOf(k)[n] \in DOMAIN po}
                    IN  IF present = {}
                        THEN calls[i].stepInputs[k] = d[k]
                        ELSE calls[i].stepInputs[k] =
                                 po[SourcesOf(k)[CHOOSE n \in present : \A m \in present : n <= m]]

\* the chain object of the call in slot i after the step, when something still
\* refers to it: the registry, the call itself or another call
Survives(i) ==
    \/ calls'[i].pc # "idle"
    \/ EndsOnRegistered(i)
    \/ \E j \in Slots \ {i} : calls[j].pc # "idle" /\ calls[j].chain = calls[i].chain

ObjectAfter(i) ==
    IF calls'[i].pc # "idle" THEN heap'[calls'[i].chain]
    ELSE IF EndsOnRegistered(i) THEN heap'[calls[i].chain]
    ELSE heap'[calls'[CHOOSE j \in Slots \ {i} :
                          calls[j].pc # "idle" /\ calls[j].chain = calls[i].chain].chain]

\* executeNextStep working on step k took the chain object from old to new:
\* id, name and step count of the chain are the same, every step has the name,
\* workflow id, credential, defaults and id it had, and every step but step k
\* is the same in all its fields
WritesOnly(old, new, k) ==
    /\ new.id = old.id /\ new.name = old.name
    /\ Len(new.steps) = Len(old.steps)
    /\ \A n \in 1..Len(old.steps) :
          /\ Definition(new.steps[n]) = Definition(old.steps[n])
          /\ new.steps[n].id = old.steps[n].id
          /\ n # k + 1 => new.steps[n] = old.steps[n]

\* C33: executeNextStep, from its start to its end, writes nothing but
\* userModifications, outputs and status of the step it works on and cursor and
\* status of the chain: the defaults of the step, the outputs of the step
\* before it, the order of the steps and every step's id, workflow id and
\* credential are after each of its steps what they were before.
C33_WritesOnly ==
    /\ \A id \in ChainIds :
          (Calls("executeNextStep", id) /\ id \in DOMAIN registry) =>
              WritesOnly(heap[registry[id]], heap'[registry'[id]],
                         heap[registry[id]].currentStepIndex)
    /\ \A i \in Slots :
          (Continues(i) /\ Survives(i)) =>
              WritesOnly(heap[calls[i].chain], ObjectAfter(i), calls[i].step)

C33_FrameOfExecute == [][C33_WritesOnly]_vars

\* the second step was executed with user modifications and previous outputs
\* and has completed
C33_Witness ==
    /\ ret.op = "ended" /\ ret.call.settled = "resolved"
    /\ ret.call.cursor = 1
    /\ ret.call.mods # Undefined
    /\ ret.call.stepInputs # ChainOf(ret.chainId).steps[2].inputs
    /\ ChainOf(ret.chainId).steps[2].inputs = NamedDef.inputs

\* C34: when the stream of a call has ended, by a run-finish record, at the end
\* of the body or by a failed read, the promise of the call is settled and
\* neither the chain nor the step of the call is 'running'.
C34_SettledAtStreamEnd ==
    (ret.op = "ended" /\ ret.chainId \in DOMAIN registry) =>
        /\ ret.call.settled # "none"
        /\ ChainOf(ret.chainId).status # "running"
        /\ ChainOf(ret.chainId).steps[ret.call.step + 1].status # "running"

\* C35: while no call of executeNextStep is in flight, in every chain of the
\* registry the steps before the cursor are 'completed' with outputs, the
\* steps after it are 'pending' without outputs, the step at the cursor is
\* 'pending' or 'failed', and the chain is 'failed' exactly when the step at
\* the cursor is.
C35_ShapeAtRest ==
    Quiet => \A id \in DOMAIN registry :
        LET chain == ChainOf(id)
            cursor == chain.currentStepIndex
        IN  \A n \in 1..Len(chain.steps) :
                LET step == chain.steps[n]
                IN  /\ n < cursor + 1 => step.status = "completed" /\ step.outputs # Undefined
                    /\ n > cursor + 1 => step.status = "pending" /\ step.outputs = Undefined
                    /\ n = cursor + 1 =>
                          /\ step.status \in {"pending", "failed"}
                          /\ (chain.status = "failed") = (step.status = "failed")

\* C36: a call of executeNextStep that passes its checks leaves on the step at
\* the cursor the modifications it was given, in place of those recorded
\* before, or those recorded before when it was given none; the inputs it
\* sends carry them; and when the call has rejected they are still on the step.
C36_Recorded ==
    \A id \in ChainIds :
        (/\ Calls("executeNextStep", id)
         /\ ret'.err \notin {"not found", "no more steps"}) =>
            LET old == StepAtCursor(heap[registry[id]])
                new == heap'[registry'[id]].steps[heap[registry[id]].currentStepIndex + 1]
            IN  /\ new.userModifications =
                       IF ret'.arg # Undefined THEN ret'.arg ELSE old.userModifications
                /\ ret'.val # Undefined =>
                       /\ calls'[Get(ret'.val)].mods = new.userModifications
                       /\ new.userModifications # Undefined =>
                             \A K \in DOMAIN Get(new.userModifications) :
                                 calls'[Get(ret'.val)].stepInputs[K] =
                                     Get(new.userModifications)[K]

C36_KeptOnFailure ==
    (ret.op = "ended" /\ ret.call.settled = "rejected" /\ ret.chainId \in DOMAIN registry) =>
        ChainOf(ret.chainId).steps[ret.call.step + 1].userModifications = ret.call.mods

C36_ModificationsReplaceAndPersist == [][C36_Recorded]_vars /\ []C36_KeptOnFailure

\* the retry of a failed step, called without modifications, sends the
\* modifications of the earlier attempt
C36_Witness ==
    /\ ret.op = "executeNextStep" /\ ret.val # Undefined /\ ret.arg = Undefined
    /\ calls[Get(ret.val)].pc = "fetching"
    /\ calls[Get(ret.val)].retry
    /\ calls[Get(ret.val)].mods = Some([k \in {"competitor_input", "second_input"} |-> "Z"])
    /\ DOMAIN CallStep(calls[Get(ret.val)]).inputs = {"competitor_input"}
    /\ CallStep(calls[Get(ret.val)]).inputs["competitor_input"] = "D"
    /\ calls[Get(ret.val)].stepInputs["competitor_input"] = "Z"

\* the cursor is within the steps, and a chain at its end is not 'failed'
C37_CursorInRange ==
    \A id \in DOMAIN registry :
        /\ ChainOf(id).currentStepIndex <= Len(ChainOf(id).steps)
        /\ ~(ChainOf(id).status = "failed"
               /\ ChainOf(id).currentStepIndex = Len(ChainOf(id).steps))

\* no call writes outputs on a step that has outputs from another call
C37_OneWriter ==
    \A i \in Slots :
        (Continues(i) /\ Survives(i)) =>
            \A n \in 1..Len(heap[calls[i].chain].steps) :
                heap[calls[i].chain].steps[n].outputs # Undefined =>
                    ObjectAfter(i).steps[n].outputs = heap[calls[i].chain].steps[n].outputs

\* C37: also when calls of executeNextStep on one chain overlap, the cursor
\* never exceeds the number of steps, the outputs of a step are written by one
\* call at most, and the chain is never 'failed' with the cursor at the number
\* of steps.
C37_OverlapSafe == []C37_CursorInRange /\ [][C37_OneWriter]_vars

\* a chain as resetChain leaves it
AtStart(chain) ==
    /\ chain.currentStepIndex = 0
    /\ chain.status = "pending"
    /\ \A n \in 1..Len(chain.steps) :
          chain.steps[n].status = "pending" /\ chain.steps[n].outputs = Undefined

\* C38: a chain that resetChain has put back to its start stays there until
\* executeNextStep is called again: the answer or a chunk of a call started
\* before the reset, whether it settles the call or not, leaves the cursor at 0,
\* the chain 'pending' and every step 'pending' without outputs.
C38_Stays ==
    \A id \in DOMAIN registry :
        (/\ AtStart(ChainOf(id))
         /\ \E i \in Slots : Continues(i) /\ calls[i].chain = registry[id]) =>
            AtStart(heap'[registry'[id]])

C38_ResetHolds == [][C38_Stays]_vars

\* the chain object of call c is no longer the one the registry has under the
\* id the call was made with: the chain was deleted or replaced
Orphaned(c) ==
    c.chainId \notin DOMAIN registry \/ registry[c.chainId] # c.chain

\* C39: the answer and the chunks of a call whose chain was deleted, or replaced
\* by createChain under the same id, while the call was in flight change
\* neither the registry nor any chain in it: a deleted id stays unknown and the
\* new chain stays as it was, at cursor 0, 'pending' and without outputs when
\* nothing was executed on it.
C39_Settlement ==
    \A i \in Slots :
        (Continues(i) /\ Orphaned(calls[i])) =>
            /\ registry' = registry
            /\ \A id \in DOMAIN registry : heap'[registry'[id]] = heap[registry[id]]

C39_OrphanedCallIsInert == [][C39_Settlement]_vars

\* a call has resolved and the chain now under its id is at its start: the
\* chain was replaced during the call
C39_Witness ==
    /\ ret.op = "ended" /\ ret.call.settled = "resolved"
    /\ ret.chainId \in DOMAIN registry
    /\ AtStart(ChainOf(ret.chainId))
    /\ Len(ChainOf(ret.chainId).steps) = 2
====
